---------------------------- MODULE Spec2Model ----------------------------
(***************************************************************************)
(* Model of src/etl.py: the metadata retriever (token refresh, record      *)
(* fetch, facility-group extraction, left joins of the annotation groups,  *)
(* derived columns) and the spreadsheet projector (header block, row       *)
(* block, concatenation, output write), run once by cli().                 *)
(*                                                                         *)
(* Text.  A string is a sequence of tokens.  The delimiter characters the  *)
(* code splits or replaces on (" ", "-", ":") are tokens of their own, and *)
(* every other token is a run of characters holding none of them, so that  *)
(* str.split and str.replace act on a token sequence exactly as they act   *)
(* on the characters: "0-10" is <<"0", "-", "10">>.  Column names, group   *)
(* keys, header labels and cell values are all such strings, because the   *)
(* code moves values between these roles (a group key becomes a cell, a    *)
(* row of labels becomes the column names).                                *)
(*                                                                         *)
(* Tables.  A DataFrame is [cols |-> sequence of column names,             *)
(* rows |-> sequence of rows], a row being the sequence of its cells in    *)
(* column order.  Its index is always 0..n-1 in the code paths modelled    *)
(* (construction from a list, merge and concat(ignore_index) all produce   *)
(* it), so the row position stands for the index label.                    *)
(***************************************************************************)
EXTENDS Naturals, Sequences, FiniteSets, TLC

VARIABLES
    pc,               \* position of the single thread of control
    user_facility,    \* cli option --user-facility
    header,           \* cli option --header/--no-header
    access_token,     \* token obtained by the refresh call
    response_status,  \* status code of the record fetch (0: no response yet)
    response,         \* decoded body of the record fetch
    df,               \* retrieve_metadata_records' working table
    keys_left,        \* sample_data_keys still to be looped over
    metadata_df,      \* table returned by retrieve_metadata_records
    json_mapper,      \* mapper loaded by cli
    headers_df,       \* result of combine_headers_df
    rows_df,          \* result of combine_sample_rows_df
    spreadsheet,      \* result of combine_headers_and_rows
    output,           \* content of the output XLSX file
    error             \* exception that ended the run ("none": none)

vars == <<pc, user_facility, header, access_token, response_status, response,
          df, keys_left, metadata_df, json_mapper, headers_df, rows_df,
          spreadsheet, output, error>>

-----------------------------------------------------------------------------
(* Bounds of the explored inputs.                                          *)

\* most records in one sampleData group
MaxRows == 2
\* most annotation groups in one submission record
MaxGroups == 2
\* most keys in one mapper
MaxKeys == 2

-----------------------------------------------------------------------------
(* Strings.                                                                *)

S(t) == <<t>>

\* pandas' missing value (NaN / None) in an object column
NaN == <<"<NaN>">>

Max(a, b) == IF a >= b THEN a ELSE b

\* the first position >= i at which sep occurs in s, 0 if none
RECURSIVE FindFrom(_, _, _)
FindFrom(s, sep, i) ==
    IF i + Len(sep) - 1 > Len(s) THEN 0
    ELSE IF SubSeq(s, i, i + Len(sep) - 1) = sep THEN i
    ELSE FindFrom(s, sep, i + 1)

\* Python's  s.split(sep)
RECURSIVE StrSplit(_, _)
StrSplit(s, sep) ==
    LET i == FindFrom(s, sep, 1) IN
    IF i = 0 THEN <<s>>
    ELSE <<SubSeq(s, 1, i - 1)>> \o StrSplit(SubSeq(s, i + Len(sep), Len(s)), sep)

\* Python's  s.replace(old, new)  for a one-character old
RECURSIVE StrReplace(_, _, _)
StrReplace(s, old, new) ==
    IF s = <<>> THEN <<>>
    ELSE (IF Head(s) = old THEN new ELSE <<Head(s)>>) \o StrReplace(Tail(s), old, new)

\* Series.str.<f>: a missing value stays missing
SeriesSplit(col, sep) == [i \in 1..Len(col) |-> IF col[i] = NaN THEN NaN ELSE StrSplit(col[i], sep)]

\* Series.str.split(sep).str[k]  (k counted from 0): missing when out of range
PartAt(parts, k) == IF parts = NaN \/ k + 1 > Len(parts) THEN NaN ELSE parts[k + 1]

\* number of columns of Series.str.split(sep, expand=True): the longest split
RECURSIVE MaxParts(_)
MaxParts(splits) ==
    IF splits = <<>> THEN 0
    ELSE Max(IF Head(splits) = NaN THEN 1 ELSE Len(Head(splits)), MaxParts(Tail(splits)))

\* Series.str.split(sep, expand=True): a table of MaxParts columns, short rows
\* padded with missing values
SplitExpand(col, sep) ==
    LET splits == SeriesSplit(col, sep)
        n == MaxParts(splits)
    IN [ncols |-> n,
        rows |-> [i \in 1..Len(col) |-> [k \in 1..n |-> PartAt(splits[i], k - 1)]]]

-----------------------------------------------------------------------------
(* Tables.                                                                 *)

NoTable == [none |-> TRUE]
EmptyDataFrame == [cols |-> <<>>, rows |-> <<>>]

IsTable(t) == t # NoTable

Range(s) == {s[i] : i \in 1..Len(s)}

HasDuplicates(s) == \E i, j \in 1..Len(s) : i < j /\ s[i] = s[j]

\* DataFrame.empty: no rows or no columns
IsEmpty(t) == Len(t.cols) = 0 \/ Len(t.rows) = 0

HasCol(t, c) == c \in Range(t.cols)

ColIndex(t, c) == CHOOSE j \in 1..Len(t.cols) : t.cols[j] = c /\ \A k \in 1..(j - 1) : t.cols[k] # c

\* df[c]
GetCol(t, c) == LET j == ColIndex(t, c) IN [i \in 1..Len(t.rows) |-> t.rows[i][j]]

\* df[c] = vals: overwrite in place, or append a new last column
SetCol(t, c, vals) ==
    IF HasCol(t, c)
    THEN LET j == ColIndex(t, c) IN
         [cols |-> t.cols,
          rows |-> [i \in 1..Len(t.rows) |-> [t.rows[i] EXCEPT ![j] = vals[i]]]]
    ELSE [cols |-> Append(t.cols, c),
          rows |-> [i \in 1..Len(t.rows) |-> Append(t.rows[i], vals[i])]]

\* df[c] = scalar
SetColScalar(t, c, v) == SetCol(t, c, [i \in 1..Len(t.rows) |-> v])


\* pd.concat of column lists: the first table's columns, then the new ones
RECURSIVE AppendNew(_, _)
AppendNew(cols, names) ==
    IF names = <<>> THEN cols
    ELSE AppendNew(IF Head(names) \in Range(cols) THEN cols ELSE Append(cols, Head(names)),
                   Tail(names))

\* A JSON record (a dict) is the sequence of its <<field, value>> pairs.
FieldsOf(rec) == [k \in 1..Len(rec) |-> rec[k][1]]

ValueOf(rec, c) ==
    IF \E k \in 1..Len(rec) : rec[k][1] = c
    THEN rec[CHOOSE k \in 1..Len(rec) : rec[k][1] = c][2]
    ELSE NaN

RECURSIVE AllFields(_, _)
AllFields(cols, records) ==
    IF records = <<>> THEN cols
    ELSE AllFields(AppendNew(cols, FieldsOf(Head(records))), Tail(records))

\* pd.DataFrame(list of records): the columns are the fields in order of first
\* appearance, a field a record lacks is missing in its row
DataFrameOf(records) ==
    LET cols == AllFields(<<>>, records) IN
    [cols |-> cols,
     rows |-> [i \in 1..Len(records) |-> [j \in 1..Len(cols) |-> ValueOf(records[i], cols[j])]]]

RECURSIVE Flatten(_)
Flatten(ss) == IF ss = <<>> THEN <<>> ELSE Head(ss) \o Flatten(Tail(ss))

\* s without its j-th element
DropAt(s, j) == SubSeq(s, 1, j - 1) \o SubSeq(s, j + 1, Len(s))

\* the rows of a table whose cell in column k is v, in order
RECURSIVE RowsWithKey(_, _, _)
RowsWithKey(rows, k, v) ==
    IF rows = <<>> THEN <<>>
    ELSE (IF Head(rows)[k] = v THEN <<Head(rows)>> ELSE <<>>) \o RowsWithKey(Tail(rows), k, v)

SuffixX == S("_x")
SuffixY == S("_y")

\* the names with every right column suffixed, shared or not
MergedColumnsAllSuffixed(left, right, on) ==
    LET overlap == (Range(left.cols) \cap Range(right.cols)) \ {on}
        rkept == DropAt(right.cols, ColIndex(right, on))
    IN [j \in 1..Len(left.cols) |->
           IF left.cols[j] \in overlap THEN left.cols[j] \o SuffixX ELSE left.cols[j]]
       \o [j \in 1..Len(rkept) |-> rkept[j] \o SuffixY]

\* the names of the merged table: the left columns, then the right ones but
\* the key; a name on both sides gets the suffixes _x and _y
MergedColumns(left, right, on) ==
    LET overlap == (Range(left.cols) \cap Range(right.cols)) \ {on}
        lcols == [j \in 1..Len(left.cols) |->
                    IF left.cols[j] \in overlap THEN left.cols[j] \o SuffixX ELSE left.cols[j]]
        rkept == DropAt(right.cols, ColIndex(right, on))
        rcols == [j \in 1..Len(rkept) |->
                    IF rkept[j] \in overlap THEN rkept[j] \o SuffixY ELSE rkept[j]]
    IN lcols \o rcols

\* the rows of an inner join: a left row without a match is dropped
MergedRowsInner(left, right, on) ==
    LET lk == ColIndex(left, on)
        rk == ColIndex(right, on)
        joined(l) == LET m == RowsWithKey(right.rows, rk, l[lk]) IN
                     [i \in 1..Len(m) |-> l \o DropAt(m[i], rk)]
    IN Flatten([i \in 1..Len(left.rows) |-> joined(left.rows[i])])

\* the rows of  pd.merge(left, right, on=on, how="left"): every left row in
\* order, once per right row of the same key (in right order), or once with
\* missing values when no right row has its key
MergedRows(left, right, on) ==
    LET lk == ColIndex(left, on)
        rk == ColIndex(right, on)
        blank == [j \in 1..(Len(right.cols) - 1) |-> NaN]
        joined(l) == LET m == RowsWithKey(right.rows, rk, l[lk]) IN
                     IF m = <<>> THEN <<l \o blank>>
                     ELSE [i \in 1..Len(m) |-> l \o DropAt(m[i], rk)]
    IN Flatten([i \in 1..Len(left.rows) |-> joined(left.rows[i])])

\* pd.merge(left, right, on=on, how="left"): the table, or the exception raised
\* (a missing key column: KeyError; suffixes producing a column name twice:
\* MergeError, as pandas 2 raises it)
Merge(left, right, on) ==
    IF ~HasCol(left, on) \/ ~HasCol(right, on) THEN [raised |-> "KeyError"]
    ELSE IF HasDuplicates(MergedColumns(left, right, on)) THEN [raised |-> "MergeError"]
    ELSE [cols |-> MergedColumns(left, right, on), rows |-> MergedRows(left, right, on)]

Raised(r) == "raised" \in DOMAIN r

-----------------------------------------------------------------------------
(* Names the code uses.                                                    *)

SampName == S("samp_name")
SampleIsolatedFrom == S("sample_isolated_from")
LatLon == S("lat_lon")
Latitude == S("latitude")
Longitude == S("longitude")
Depth == S("depth")
MinimumDepth == S("minimum_depth")
MaximumDepth == S("maximum_depth")
GeoLocName == S("geo_loc_name")
CountryName == S("country_name")
CollectionDate == S("collection_date")
CollectionYear == S("collection_year")
CollectionMonth == S("collection_month")
CollectionDay == S("collection_day")
CollectionMonthName == S("collection_month_name")
DnaDnase == S("dna_dnase")
DnaseRna == S("dnase_rna")
SubPortMapping == S("sub_port_mapping")
HeaderField == S("header")

EmslData == S("emsl_data")
JgiMgData == S("jgi_mg_data")
JgiMtData == S("jgi_mt_data")

USER_FACILITY_DICT == [emsl |-> EmslData, jgi_mg |-> JgiMgData, jgi_mt |-> JgiMtData]

\* user_facility_keys of retrieve_metadata_records
UserFacilityKeys == <<EmslData, JgiMgData, JgiMtData>>

Space == " "
Hyphen == "-"
Colon == ":"

\* int(x) of the one-token strings that are decimal numerals
IntValue == [t \in {"00", "01", "05", "12", "13", "17", "2020"} |->
                CASE t = "00" -> 0 [] t = "01" -> 1 [] t = "05" -> 5 [] t = "12" -> 12
                  [] t = "13" -> 13 [] t = "17" -> 17 [] t = "2020" -> 2020]

\* calendar.month_name: 13 entries, the first empty
MonthNameTable == <<"", "January", "February", "March", "April", "May", "June", "July",
                    "August", "September", "October", "November", "December">>

\* lambda x: calendar.month_name[int(x)]: the name, or the exception raised
\* (int() of a missing value or of a non-numeral: ValueError; a number past
\* the table: IndexError)
MonthName(x) ==
    IF x = NaN \/ Len(x) # 1 THEN [raised |-> "ValueError"]
    ELSE IF x[1] \notin DOMAIN IntValue THEN [raised |-> "ValueError"]
    ELSE IF IntValue[x[1]] + 1 > Len(MonthNameTable) THEN [raised |-> "IndexError"]
    ELSE [name |-> S(MonthNameTable[IntValue[x[1]] + 1])]

-----------------------------------------------------------------------------
(* Inputs: the portal's answers, bounded.  A sampleData mapping is the     *)
(* sequence of its groups [key, records] in encounter order, keys distinct.*)

Facilities == {"emsl", "jgi_mg", "jgi_mt", "nmdc"}

NamePool == <<"s1", "s2", "s3", "s4">>
IndexPool == <<"1", "2", "3", "4">>
AnnotationKeyPool == <<"soil", "water", "plant_associated", "sediment">>

Group(key, records) == [key |-> key, records |-> records]

\* values of the source columns of the derivations
SourceValues(c) ==
    CASE c = LatLon -> {<<"12.3", Space, Hyphen, "45.6">>, <<"12.3">>, <<"1", Space, "2", Space, "3">>}
      [] c = Depth -> {<<"0", Hyphen, "10">>, <<"0", Space, Hyphen, Space, "10">>, <<"5">>,
                       <<"1", Hyphen, "2", Hyphen, "3">>}
      [] c = GeoLocName -> {<<"USA", Colon, Space, "California">>, <<"USA">>}
      [] c = CollectionDate -> {<<"2020", Hyphen, "05", Hyphen, "17">>, <<"2020", Hyphen, "05">>,
                                <<"2020">>, <<"2020", Hyphen, "13", Hyphen, "01">>,
                                <<"2020", Hyphen, "05", Hyphen, "17", Hyphen, "01">>}
      [] c = DnaDnase -> {S("yes"), S("no"), S("maybe")}
      [] c = DnaseRna -> {S("yes"), S("no"), S("maybe")}

\* k records named s1..sk, each with the one further field c
RecordsOf(c, vs) == [i \in 1..Len(vs) |-> << <<SampName, S(NamePool[i])>>, <<c, vs[i]>> >>]

TablesOf(c) == UNION {{RecordsOf(c, vs) : vs \in [1..k -> SourceValues(c)]} : k \in 1..MaxRows}

\* a facility group holding one source column, no annotation group
DeriveSampleData ==
    UNION {{<<Group(EmslData, t)>> : t \in TablesOf(c)} :
           c \in {LatLon, Depth, GeoLocName, CollectionDate}}
    \cup {<<Group(JgiMgData, t)>> : t \in TablesOf(DnaDnase)}
    \cup {<<Group(JgiMtData, t)>> : t \in TablesOf(DnaseRna)}

\* records named by ns (indices into NamePool), each with the field c valued
\* by its name and position; c = SampName: the records have no further field
NamedRecords(ns, c) ==
    [i \in 1..Len(ns) |->
        IF c = SampName THEN << <<SampName, S(NamePool[ns[i]])>> >>
        ELSE << <<SampName, S(NamePool[ns[i]])>>, <<c, c \o S(NamePool[ns[i]]) \o S(IndexPool[i])>> >>]

\* the same without the samp_name field
UnnamedRecords(ns, c) == [i \in 1..Len(ns) |-> << <<c, c \o S(IndexPool[i])>> >>]

MergeBases == {NamedRecords(<<1>>, S("a")), NamedRecords(<<1, 2>>, S("a")),
               NamedRecords(<<1, 1>>, S("a"))}

\* annotation groups of at most one record
SmallGroups == {<<>>, NamedRecords(<<1>>, S("a")), NamedRecords(<<1>>, S("b")),
                NamedRecords(<<3>>, S("c"))}

\* up to MaxGroups small annotation groups after the facility group
ManyGroupsSampleData ==
    UNION {{<<Group(EmslData, b)>> \o [i \in 1..g |-> Group(S(AnnotationKeyPool[i]), gs[i])] :
            b \in MergeBases, gs \in [1..g -> SmallGroups]} : g \in 0..MaxGroups}

\* one annotation group of up to MaxRows records
OneGroupSampleData ==
    UNION {{<<Group(S("soil"), NamedRecords(ns, c)), Group(EmslData, b)>> :
            b \in MergeBases, ns \in [1..k -> {1, 2}], c \in {S("a"), S("b")}}
           \cup {<<Group(EmslData, b), Group(S("soil"), UnnamedRecords(ns, S("b")))>> :
                 b \in MergeBases, ns \in [1..k -> {1}]} : k \in 1..MaxRows}

FullRecord == << <<SampName, S("s1")>>, <<DnaDnase, S("yes")>>, <<DnaseRna, S("no")>>,
                 <<Depth, <<"0", Hyphen, "10">> >> >>

\* the facility groups present, absent or empty
FacilitySampleData ==
    {<<>>,
     <<Group(S("soil"), NamedRecords(<<1>>, S("b")))>>,
     <<Group(EmslData, <<>>), Group(JgiMgData, <<FullRecord>>)>>,
     <<Group(JgiMgData, <<>>), Group(S("soil"), NamedRecords(<<1>>, S("b")))>>,
     <<Group(JgiMtData, << <<>> >>)>>,
     <<Group(EmslData, <<FullRecord>>), Group(JgiMgData, <<FullRecord>>),
       Group(JgiMtData, <<FullRecord>>), Group(S("water"), <<>>)>>}

SampleDatas == DeriveSampleData \cup ManyGroupsSampleData \cup OneGroupSampleData
               \cup FacilitySampleData

NoResponse == [none |-> TRUE]
\* a body that is no JSON document
NotJson == [json |-> FALSE]
\* a JSON body without "metadata_submission", such as {"detail": "Not Found"}
DetailBody == [json |-> TRUE, has_record |-> FALSE]
RecordBody(sd) == [json |-> TRUE, has_record |-> TRUE, sampleData |-> sd]

Statuses == {200, 404}

\* what the portal may answer with a status
Bodies(status) ==
    IF status = 200 THEN {NotJson, DetailBody} \cup {RecordBody(sd) : sd \in SampleDatas}
    ELSE {NotJson, DetailBody} \cup {RecordBody(sd) : sd \in FacilitySampleData}

-----------------------------------------------------------------------------
(* The metadata retriever.                                                 *)

NoMapper == [none |-> TRUE]
NoFile == [none |-> TRUE]

Init ==
    /\ pc = "refresh"
    /\ user_facility \in Facilities
    /\ header \in BOOLEAN
    /\ access_token = "none"
    /\ response_status = 0
    /\ response = NoResponse
    /\ df = NoTable
    /\ keys_left = <<>>
    /\ metadata_df = NoTable
    /\ json_mapper = NoMapper
    /\ headers_df = NoTable
    /\ rows_df = NoTable
    /\ spreadsheet = NoTable
    /\ output = NoFile
    /\ error = "none"

\* an uncaught exception: nothing catches it up to cli, the process ends
Raise(e) == pc' = "failed" /\ error' = e

\* requests.post(.../auth/refresh); raise_for_status(); access_token
RefreshToken ==
    /\ pc = "refresh"
    /\ \E ok \in BOOLEAN :
         IF ok THEN pc' = "fetch" /\ access_token' = "token" /\ error' = error
         ELSE Raise("HTTPError") /\ access_token' = access_token
    /\ UNCHANGED <<user_facility, header, response_status, response, df, keys_left,
                   metadata_df, json_mapper, headers_df, rows_df, spreadsheet, output>>

\* requests.get(.../api/metadata_submission/<id>).json(): the status is not
\* looked at, the body is decoded whatever it is
FetchRecord ==
    /\ pc = "fetch"
    /\ \E status \in Statuses : \E body \in Bodies(status) :
         /\ response_status' = status
         /\ IF body.json THEN pc' = "extract" /\ response' = body /\ error' = error
            ELSE Raise("JSONDecodeError") /\ response' = response
    /\ UNCHANGED <<user_facility, header, access_token, df, keys_left, metadata_df,
                   json_mapper, headers_df, rows_df, spreadsheet, output>>

\* sampleData.get(key, {})
GetRecords(sampleData, key) ==
    IF \E i \in 1..Len(sampleData) : sampleData[i].key = key
    THEN sampleData[CHOOSE i \in 1..Len(sampleData) : sampleData[i].key = key].records
    ELSE <<>>

\* common_df: the facility group's table, empty for an unknown selector
CommonDf(sampleData, facility) ==
    IF facility \in DOMAIN USER_FACILITY_DICT
    THEN DataFrameOf(GetRecords(sampleData, USER_FACILITY_DICT[facility]))
    ELSE EmptyDataFrame

\* sample_data_keys: the keys that are no facility-group key, in encounter order
RECURSIVE SampleDataKeys(_)
SampleDataKeys(sampleData) ==
    IF sampleData = <<>> THEN <<>>
    ELSE (IF Head(sampleData).key \in Range(UserFacilityKeys) THEN <<>>
          ELSE <<Head(sampleData).key>>) \o SampleDataKeys(Tail(sampleData))

\* the emptiness test of line 79 left out
FacilityDataFoundUnchecked(common) == IsTable(common)

\* whether the loop over sample_data_keys is entered with this common_df
FacilityDataFound(common) == ~IsEmpty(common)

\* lines 70-91: the facility group's table, or ValueError when it is empty
ExtractFacilityData ==
    /\ pc = "extract"
    /\ IF user_facility \in DOMAIN USER_FACILITY_DICT /\ ~response.has_record
       THEN Raise("KeyError") /\ UNCHANGED <<df, keys_left>>
       ELSE IF ~response.has_record
       THEN Raise("ValueError") /\ UNCHANGED <<df, keys_left>>
       ELSE LET common_df == CommonDf(response.sampleData, user_facility) IN
            IF FacilityDataFound(common_df)
            THEN /\ pc' = "merge"
                 /\ df' = common_df
                 /\ keys_left' = SampleDataKeys(response.sampleData)
                 /\ error' = error
            ELSE Raise("ValueError") /\ UNCHANGED <<df, keys_left>>
    /\ UNCHANGED <<user_facility, header, access_token, response_status, response,
                   metadata_df, json_mapper, headers_df, rows_df, spreadsheet, output>>

\* the stamp of line 105 moved into the branch of line 101
MergedWithStampInsideIf(table, key, records) ==
    LET sample_data_df == DataFrameOf(records) IN
    IF IsEmpty(sample_data_df) THEN table
    ELSE LET merged == Merge(table, sample_data_df, SampName) IN
         IF Raised(merged) THEN merged ELSE SetColScalar(merged, SampleIsolatedFrom, key)

\* one iteration of the loop over sample_data_keys: the merged table (or the
\* exception of pd.merge), stamped with the key
MergedWith(table, key, records) ==
    LET sample_data_df == DataFrameOf(records)
        merged == IF ~IsEmpty(sample_data_df) THEN Merge(table, sample_data_df, SampName)
                  ELSE table
    IN IF Raised(merged) THEN merged ELSE SetColScalar(merged, SampleIsolatedFrom, key)

MergeSampleData ==
    /\ pc = "merge"
    /\ keys_left # <<>>
    /\ LET key == Head(keys_left)
           merged == MergedWith(df, key, GetRecords(response.sampleData, key))
       IN IF Raised(merged)
          THEN Raise(merged.raised) /\ UNCHANGED <<df, keys_left>>
          ELSE /\ df' = merged
               /\ keys_left' = Tail(keys_left)
               /\ UNCHANGED <<pc, error>>
    /\ UNCHANGED <<user_facility, header, access_token, response_status, response,
                   metadata_df, json_mapper, headers_df, rows_df, spreadsheet, output>>


\* df[[a, b]] = <table of split parts>: the number of parts must be the
\* number of keys ("Columns must be same length as key")
AssignParts(table, names, expanded) ==
    IF expanded.ncols # Len(names) THEN [raised |-> "ValueError"]
    ELSE LET F[k \in 0..Len(names)] ==
                 IF k = 0 THEN table
                 ELSE SetCol(F[k - 1], names[k],
                             [i \in 1..Len(table.rows) |-> expanded.rows[i][k]])
         IN F[Len(names)]

\* lines 109-110
WithLatLon(table) ==
    IF HasCol(table, LatLon)
    THEN AssignParts(table, <<Latitude, Longitude>>, SplitExpand(GetCol(table, LatLon), <<Space>>))
    ELSE table

\* the separator the depth column is split on
DepthSeparator == <<Space, Hyphen, Space>>

\* line 114: every "-" becomes " - "
NormalizeDepth(d) == IF d = NaN THEN NaN ELSE StrReplace(d, Hyphen, DepthSeparator)

\* whether the depth of the whole table is taken from the first split part
SingleDepth(table) == Len(table.rows) = 1

\* lines 112-123
WithDepth(table) ==
    IF HasCol(table, Depth)
    THEN LET normalized == [i \in 1..Len(table.rows) |-> NormalizeDepth(GetCol(table, Depth)[i])]
             t1 == SetCol(table, Depth, normalized)
             dfNew == SplitExpand(normalized, DepthSeparator)
         IN IF SingleDepth(table)
            THEN SetColScalar(SetColScalar(t1, MinimumDepth, dfNew.rows[1][1]),
                              MaximumDepth, dfNew.rows[1][1])
            ELSE AssignParts(t1, <<MinimumDepth, MaximumDepth>>, dfNew)
    ELSE table

\* lines 125-126
WithCountry(table) ==
    IF HasCol(table, GeoLocName)
    THEN SetCol(table, CountryName,
                [i \in 1..Len(table.rows) |->
                    PartAt(SeriesSplit(GetCol(table, GeoLocName), <<Colon>>)[i], 0)])
    ELSE table

\* lines 128-135
WithCollectionDate(table) ==
    IF HasCol(table, CollectionDate)
    THEN LET parts == SeriesSplit(GetCol(table, CollectionDate), <<Hyphen>>)
             n == Len(table.rows)
             t1 == SetCol(table, CollectionYear, [i \in 1..n |-> PartAt(parts[i], 0)])
             t2 == SetCol(t1, CollectionMonth, [i \in 1..n |-> PartAt(parts[i], 1)])
             t3 == SetCol(t2, CollectionDay, [i \in 1..n |-> PartAt(parts[i], 2)])
             names == [i \in 1..n |-> MonthName(GetCol(t3, CollectionMonth)[i])]
         IN IF \E i \in 1..n : Raised(names[i])
            THEN [raised |-> names[CHOOSE i \in 1..n :
                                      Raised(names[i]) /\ \A k \in 1..(i - 1) : ~Raised(names[k])].raised]
            ELSE SetCol(t3, CollectionMonthName, [i \in 1..n |-> names[i].name])
    ELSE table

\* df.loc[df[c] == "yes", c] = "Y" and the same for "no"
YesNo(table, c) ==
    IF ~HasCol(table, c) THEN [raised |-> "KeyError"]
    ELSE SetCol(table, c,
                [i \in 1..Len(table.rows) |->
                    LET v == GetCol(table, c)[i] IN
                    IF v = S("yes") THEN S("Y") ELSE IF v = S("no") THEN S("N") ELSE v])

\* lines 139-144
WithDnase(table, facility) ==
    LET t1 == IF facility = "jgi_mg" THEN YesNo(table, DnaDnase) ELSE table
    IN IF Raised(t1) THEN t1
       ELSE IF facility = "jgi_mt" THEN YesNo(t1, DnaseRna) ELSE t1

\* one derivation step: the table or the exception, then the next position
DeriveStep(result, next) ==
    /\ IF Raised(result)
       THEN Raise(result.raised) /\ df' = df
       ELSE pc' = next /\ df' = result /\ error' = error
    /\ UNCHANGED <<user_facility, header, access_token, response_status, response, keys_left,
                   metadata_df, json_mapper, headers_df, rows_df, spreadsheet, output>>

DeriveLatLon == pc = "merge" /\ keys_left = <<>> /\ DeriveStep(WithLatLon(df), "depth")

DeriveDepth == pc = "depth" /\ DeriveStep(WithDepth(df), "country")

DeriveCountry == pc = "country" /\ DeriveStep(WithCountry(df), "date")

DeriveCollectionDate == pc = "date" /\ DeriveStep(WithCollectionDate(df), "dnase")

\* lines 137-146 and 293: the rewritten table is returned to cli
NormalizeDnase ==
    /\ pc = "dnase"
    /\ LET result == WithDnase(df, user_facility) IN
       IF Raised(result)
       THEN Raise(result.raised) /\ UNCHANGED <<df, metadata_df>>
       ELSE pc' = "load_mapper" /\ df' = result /\ metadata_df' = result /\ error' = error
    /\ UNCHANGED <<user_facility, header, access_token, response_status, response, keys_left,
                   json_mapper, headers_df, rows_df, spreadsheet, output>>

-----------------------------------------------------------------------------
(* The spreadsheet projector.  A mapper is [entries |-> the sequence of    *)
(* its [key, fields] in declaration order], the fields of a key being the  *)
(* sequence of its <<name, value>> pairs.                                  *)

KeyPool == <<"A", "B", "C", "D">>

Entry(key, fields) == [key |-> key, fields |-> fields]

\* the header labels a key may declare, in declaration order
LabelChoices ==
    {<<>>,
     << <<S("h1"), S("Lab")>> >>,
     << <<HeaderField, S("Analyte")>> >>,
     << <<HeaderField, S("Lab2")>> >>,
     << <<S("h1"), S("Lab")>>, <<HeaderField, S("Analyte")>> >>,
     << <<S("h1"), S("LabB")>>, <<HeaderField, S("Lab2")>> >>}

\* the sub_port_mapping a key may declare
MappingChoices == {<<>>, << <<SubPortMapping, SampName>> >>, << <<SubPortMapping, S("a")>> >>}

FieldChoices == {l \o m : l \in LabelChoices, m \in MappingChoices}

Mappers ==
    UNION {{[entries |-> [i \in 1..n |-> Entry(S(KeyPool[i]), fs[i])]] :
            fs \in [1..n -> FieldChoices]} : n \in 0..MaxKeys}

\* the mappers the whole run is explored with
MainMappers ==
    {[entries |-> <<>>],
     [entries |-> <<Entry(S("A"), << <<S("h1"), S("Lab")>>, <<HeaderField, S("Analyte")>>,
                                     <<SubPortMapping, SampName>> >>),
                     Entry(S("B"), << <<HeaderField, S("Lab2")>> >>)>>],
     [entries |-> <<Entry(S("A"), << <<HeaderField, S("Analyte")>>, <<SubPortMapping, SampName>> >>),
                     Entry(S("B"), << <<HeaderField, S("Lab2")>>, <<SubPortMapping, Depth>> >>)>>]}

\* the merged tables the projector alone is explored with
ProjectTables ==
    {DataFrameOf(NamedRecords(<<1>>, S("a"))), DataFrameOf(NamedRecords(<<1, 2>>, S("a"))),
     DataFrameOf(NamedRecords(<<1, 2>>, SampName))}

HasField(entry, name) == \E k \in 1..Len(entry.fields) : entry.fields[k][1] = name

FieldValue(entry, name) == ValueOf(entry.fields, name)

\* [h for h_n, h in v.items() if h_n != "sub_port_mapping"]
RECURSIVE LabelsOf(_)
LabelsOf(fields) ==
    IF fields = <<>> THEN <<>>
    ELSE (IF Head(fields)[1] # SubPortMapping THEN <<Head(fields)[2]>> ELSE <<>>)
         \o LabelsOf(Tail(fields))

HeaderLabels(entry) == LabelsOf(entry.fields)

\* pd.DataFrame(d), d mapping each key to its list of labels: a column per
\* key, a row per label; lists of different lengths raise ValueError
HeadersFrame(mapper) ==
    LET es == mapper.entries IN
    IF es = <<>> THEN EmptyDataFrame
    ELSE IF \E i, j \in 1..Len(es) : Len(HeaderLabels(es[i])) # Len(HeaderLabels(es[j]))
    THEN [raised |-> "ValueError"]
    ELSE [cols |-> [j \in 1..Len(es) |-> es[j].key],
          rows |-> [i \in 1..Len(HeaderLabels(es[1])) |->
                       [j \in 1..Len(es) |-> HeaderLabels(es[j])[i]]]]

\* the promotion without the rotation of lines 192-195
PromoteLastRowUnrotated(t) ==
    IF Len(t.rows) = 0 THEN [raised |-> "IndexError"]
    ELSE [cols |-> t.rows[Len(t.rows)],
          rows |-> Append(SubSeq(t.rows, 1, Len(t.rows) - 1), t.cols)]

\* lines 185-195: the last row becomes the column names, the old column
\* names become the last row, the rows are rotated by one
PromoteLastRow(t) ==
    IF Len(t.rows) = 0 THEN [raised |-> "IndexError"]
    ELSE LET n == Len(t.rows)
             column_values == t.rows[n]
             appended == Append(SubSeq(t.rows, 1, n - 1), t.cols)
         IN [cols |-> column_values,
             rows |-> <<appended[n]>> \o SubSeq(appended, 1, n - 1)]

\* whether combine_headers_df reshapes the header table
Promotes(flag) == flag

\* combine_headers_df
CombineHeadersDf(mapper, flag) ==
    LET h == HeadersFrame(mapper) IN
    IF Raised(h) THEN h
    ELSE IF Promotes(flag) THEN PromoteLastRow(h)
    ELSE h

\* rows_df[name] = series: the first column gives the table its rows
AssignColumn(t, name, vals) ==
    IF t.cols = <<>> THEN [cols |-> <<name>>, rows |-> [i \in 1..Len(vals) |-> <<vals[i]>>]]
    ELSE SetCol(t, name, vals)

\* the condition of lines 207-210
IsMapped(entry, table) ==
    /\ HasField(entry, SubPortMapping)
    /\ HasCol(table, FieldValue(entry, SubPortMapping))

\* the column named by the key even when a header label is declared
OutputNameKeyOnly(entry) == entry.key

\* the column name of lines 211-214
OutputName(entry) == IF HasField(entry, HeaderField) THEN FieldValue(entry, HeaderField) ELSE entry.key

\* combine_sample_rows_df
CombineSampleRowsDf(mapper, table) ==
    LET es == mapper.entries
        F[k \in 0..Len(es)] ==
            IF k = 0 THEN EmptyDataFrame
            ELSE IF IsMapped(es[k], table)
            THEN AssignColumn(F[k - 1], OutputName(es[k]),
                              GetCol(table, FieldValue(es[k], SubPortMapping)))
            ELSE F[k - 1]
    IN F[Len(es)]

\* a row of a table laid out under other columns: missing where it has none
Reindexed(t, cols) ==
    [i \in 1..Len(t.rows) |->
        [j \in 1..Len(cols) |-> IF HasCol(t, cols[j]) THEN t.rows[i][ColIndex(t, cols[j])] ELSE NaN]]

\* pd.concat([a, b]): the rows of a above those of b under the union of the
\* columns; tables of different columns, one of them with a name twice,
\* cannot be aligned (InvalidIndexError)
ConcatFrames(a, b) ==
    IF a.cols = b.cols THEN [cols |-> a.cols, rows |-> a.rows \o b.rows]
    ELSE IF HasDuplicates(a.cols) \/ HasDuplicates(b.cols) THEN [raised |-> "InvalidIndexError"]
    ELSE LET cols == AppendNew(a.cols, b.cols) IN
         [cols |-> cols, rows |-> Reindexed(a, cols) \o Reindexed(b, cols)]

\* lines 295-298
LoadMapper ==
    /\ pc = "load_mapper"
    /\ \E m \in MainMappers : json_mapper' = m
    /\ pc' = "combine_headers"
    /\ UNCHANGED <<user_facility, header, access_token, response_status, response, df,
                   keys_left, metadata_df, headers_df, rows_df, spreadsheet, output, error>>

\* line 237
CombineHeaders ==
    /\ pc = "combine_headers"
    /\ LET h == CombineHeadersDf(json_mapper, header) IN
       IF Raised(h) THEN Raise(h.raised) /\ headers_df' = headers_df
       ELSE pc' = "combine_rows" /\ headers_df' = h /\ error' = error
    /\ UNCHANGED <<user_facility, header, access_token, response_status, response, df,
                   keys_left, metadata_df, json_mapper, rows_df, spreadsheet, output>>

\* line 238
CombineSampleRows ==
    /\ pc = "combine_rows"
    /\ rows_df' = CombineSampleRowsDf(json_mapper, metadata_df)
    /\ pc' = "combine"
    /\ UNCHANGED <<user_facility, header, access_token, response_status, response, df,
                   keys_left, metadata_df, json_mapper, headers_df, spreadsheet, output, error>>

\* lines 239-240
CombineHeadersAndRows ==
    /\ pc = "combine"
    /\ LET c == ConcatFrames(headers_df, rows_df) IN
       IF Raised(c) THEN Raise(c.raised) /\ spreadsheet' = spreadsheet
       ELSE pc' = "write" /\ spreadsheet' = c /\ error' = error
    /\ UNCHANGED <<user_facility, header, access_token, response_status, response, df,
                   keys_left, metadata_df, json_mapper, headers_df, rows_df, output>>

\* line 300: to_excel(output, index=False) writes the column names, then the rows
WriteSpreadsheet ==
    /\ pc = "write"
    /\ output' = [columns |-> spreadsheet.cols, rows |-> spreadsheet.rows]
    /\ pc' = "done"
    /\ UNCHANGED <<user_facility, header, access_token, response_status, response, df,
                   keys_left, metadata_df, json_mapper, headers_df, rows_df, spreadsheet, error>>

-----------------------------------------------------------------------------
(* Specifications.                                                         *)

Project == CombineHeaders \/ CombineSampleRows \/ CombineHeadersAndRows \/ WriteSpreadsheet

Next ==
    \/ RefreshToken
    \/ FetchRecord
    \/ ExtractFacilityData
    \/ MergeSampleData
    \/ DeriveLatLon
    \/ DeriveDepth
    \/ DeriveCountry
    \/ DeriveCollectionDate
    \/ NormalizeDnase
    \/ LoadMapper
    \/ Project

\* one run of cli
Spec == Init /\ [][Next]_vars

\* create_spreadsheet alone, on every mapper, flag and merged table of the bounds
InitProject ==
    /\ pc = "combine_headers"
    /\ user_facility = "emsl"
    /\ header \in BOOLEAN
    /\ access_token = "token"
    /\ response_status = 0
    /\ response = NoResponse
    /\ df = NoTable
    /\ keys_left = <<>>
    /\ metadata_df \in ProjectTables
    /\ json_mapper \in Mappers
    /\ headers_df = NoTable
    /\ rows_df = NoTable
    /\ spreadsheet = NoTable
    /\ output = NoFile
    /\ error = "none"

SpecProject == InitProject /\ [][Project]_vars

-----------------------------------------------------------------------------
(* Vocabulary of the properties.                                           *)

Last(s) == s[Len(s)]

\* a submission record has been fetched and decoded
HasRecord == response # NoResponse /\ response.has_record

\* the table of the facility group the selector resolves to
BaseTable == CommonDf(response.sampleData, user_facility)

\* the annotation-group keys of the record, and how many have been looped over
AnnotationKeys == SampleDataKeys(response.sampleData)
Processed == Len(AnnotationKeys) - Len(keys_left)
ProcessedTable(i) == DataFrameOf(GetRecords(response.sampleData, AnnotationKeys[i]))

\* the retriever holds a working table built from the fetched record
Retrieved == HasRecord /\ IsTable(df)

-----------------------------------------------------------------------------
(* C1.                                                                     *)

GroupAbsentOrEmpty ==
    /\ HasRecord
    /\ user_facility \in DOMAIN USER_FACILITY_DICT
    /\ GetRecords(response.sampleData, USER_FACILITY_DICT[user_facility]) = <<>>

\* C1: whenever the facility group the selector resolves to is absent from
\* sampleData or is an empty list, the run never gets past the extraction:
\* it ends with ValueError, and no working table, returned table or output
\* exists at any time.
C1_MissingFacilityGroupFails ==
    GroupAbsentOrEmpty =>
        /\ pc \in {"extract", "failed"}
        /\ pc = "failed" => error = "ValueError"
        /\ df = NoTable
        /\ metadata_df = NoTable
        /\ output = NoFile

\* the group is present as an empty list, and the run has failed on it
C1_Witness ==
    /\ GroupAbsentOrEmpty
    /\ \E i \in 1..Len(response.sampleData) :
          response.sampleData[i].key = USER_FACILITY_DICT[user_facility]
    /\ pc = "failed"
    /\ error = "ValueError"

-----------------------------------------------------------------------------
(* C2.                                                                     *)

NonSuccess(status) == status # 0 /\ status \notin 200..299

\* C2: a failed stage ends the run with nothing of the later stages done: a
\* failed token refresh leaves no fetch, a non-success answer to the record
\* fetch leaves the run failed with no record decoded and no table, a failed
\* run has written no output, and the output is only written from a
\* spreadsheet built from a returned table.
C2_FailureAbortsRun ==
    /\ error = "HTTPError" => pc = "failed" /\ response_status = 0 /\ response = NoResponse
    /\ NonSuccess(response_status) =>
          pc = "failed" /\ response = NoResponse /\ df = NoTable /\ output = NoFile
    /\ pc = "failed" => output = NoFile
    /\ output # NoFile => IsTable(spreadsheet) /\ IsTable(metadata_df)

-----------------------------------------------------------------------------
(* C3.                                                                     *)

\* C3: with the header flag off, the header block has no row and the
\* spreadsheet holds the data rows of the row block only.
C3_NoHeaderBlockWhenFlagOff ==
    (~header /\ IsTable(spreadsheet)) =>
        /\ Len(headers_df.rows) = 0
        /\ Len(spreadsheet.rows) = Len(rows_df.rows)

-----------------------------------------------------------------------------
(* C4.                                                                     *)

\* combine_headers_df has been called on the loaded mapper
HeadersActed == json_mapper # NoMapper /\ pc # "combine_headers"

MapperKeys == [j \in 1..Len(json_mapper.entries) |-> json_mapper.entries[j].key]
LabelCount(j) == Len(HeaderLabels(json_mapper.entries[j]))
LastLabels == [j \in 1..Len(json_mapper.entries) |-> Last(HeaderLabels(json_mapper.entries[j]))]

\* every key declares at least one header label
AllLabelled == json_mapper.entries # <<>> /\ \A j \in 1..Len(json_mapper.entries) : LabelCount(j) >= 1

\* and all keys declare the same number of them
UniformLabels == AllLabelled /\ \A j \in 1..Len(json_mapper.entries) : LabelCount(j) = LabelCount(1)

\* C4 as stated: with the header flag set, for every mapper whose keys declare
\* header labels (in equal or different numbers), combine_headers_df succeeds,
\* the column names are the keys' last labels and the mapper-key row is the
\* first row.
C4_HeaderBlockForEveryMapper ==
    (header /\ HeadersActed /\ AllLabelled) =>
        /\ IsTable(headers_df)
        /\ headers_df.cols = LastLabels
        /\ headers_df.rows[1] = MapperKeys

\* the data rows of the j-th key's promoted column are all missing
NoDataUnder(j) ==
    \A i \in (LabelCount(1) + 1)..Len(spreadsheet.rows) :
        spreadsheet.rows[i][ColIndex(spreadsheet, LastLabels[j])] = NaN

\* C4 amended: with the header flag set and a mapper whose keys all declare
\* the same number n >= 1 of header labels, combine_headers_df succeeds: the
\* column names are the keys' last labels, the first row is the mapper-key
\* row (rotated to the front) and rows 2..n are the labels 1..n-1 in
\* declaration order; in the spreadsheet a key without a valid mapping whose
\* promoted label names no row-block column has no data value.  A mapper
\* whose keys declare different numbers of labels makes combine_headers_df
\* fail with ValueError.
C4_UniformHeaderBlock ==
    (header /\ HeadersActed) =>
        /\ UniformLabels =>
              /\ IsTable(headers_df)
              /\ headers_df.cols = LastLabels
              /\ Len(headers_df.rows) = LabelCount(1)
              /\ headers_df.rows[1] = MapperKeys
              /\ \A i \in 2..LabelCount(1) :
                    headers_df.rows[i] =
                        [j \in 1..Len(json_mapper.entries) |-> HeaderLabels(json_mapper.entries[j])[i - 1]]
        /\ (AllLabelled /\ ~UniformLabels) =>
              headers_df = NoTable /\ pc = "failed" /\ error = "ValueError"
        /\ (UniformLabels /\ IsTable(spreadsheet) /\ IsTable(rows_df)) =>
              \A j \in 1..Len(json_mapper.entries) :
                  LastLabels[j] \notin Range(rows_df.cols) => NoDataUnder(j)

\* two keys of two labels each, one mapped and one not, written out
C4_Witness ==
    /\ header
    /\ pc = "done"
    /\ Len(json_mapper.entries) = 2
    /\ UniformLabels
    /\ LabelCount(1) = 2
    /\ Len(rows_df.cols) = 1
    /\ Len(spreadsheet.rows) > 2
    /\ \E j \in 1..2 : LastLabels[j] \notin Range(rows_df.cols)

-----------------------------------------------------------------------------
(* C5.                                                                     *)

\* the key has a sub_port_mapping naming a column of the merged table
C5_Mapped(e) ==
    /\ \E k \in 1..Len(e.fields) : e.fields[k][1] = SubPortMapping
    /\ ValueOf(e.fields, SubPortMapping) \in Range(metadata_df.cols)

\* the declared header label, else the key
C5_Name(e) ==
    IF \E k \in 1..Len(e.fields) : e.fields[k][1] = HeaderField
    THEN ValueOf(e.fields, HeaderField) ELSE e.key

RECURSIVE C5_MappedEntries(_)
C5_MappedEntries(es) ==
    IF es = <<>> THEN <<>>
    ELSE (IF C5_Mapped(Head(es)) THEN <<Head(es)>> ELSE <<>>) \o C5_MappedEntries(Tail(es))

C5_Names == LET m == C5_MappedEntries(json_mapper.entries) IN [k \in 1..Len(m) |-> C5_Name(m[k])]

\* C5 as stated: the row block has exactly one column per mapped key, in
\* mapper order, named by the header label or the key, holding the mapped
\* source column.
C5_OneColumnPerMappedKey ==
    IsTable(rows_df) =>
        LET m == C5_MappedEntries(json_mapper.entries) IN
        /\ rows_df.cols = C5_Names
        /\ \A k \in 1..Len(m) :
              [i \in 1..Len(rows_df.rows) |-> rows_df.rows[i][k]]
                 = GetCol(metadata_df, ValueOf(m[k].fields, SubPortMapping))

\* C5 amended: the row block has one column per distinct output name (header
\* label, else key) of the mapped keys, at the place of the name's first
\* mapped key and holding the source column of its last mapped key; so when
\* the output names of the mapped keys are distinct there is exactly one
\* column per mapped key, in mapper order, holding its source column.
C5_OneColumnPerOutputName ==
    IsTable(rows_df) =>
        LET m == C5_MappedEntries(json_mapper.entries) IN
        /\ rows_df.cols = AppendNew(<<>>, C5_Names)
        /\ m # <<>> => Len(rows_df.rows) = Len(metadata_df.rows)
        /\ \A k \in 1..Len(m) :
              (\A l \in (k + 1)..Len(m) : C5_Names[l] # C5_Names[k]) =>
                  GetCol(rows_df, C5_Names[k]) = GetCol(metadata_df, ValueOf(m[k].fields, SubPortMapping))
        /\ ~HasDuplicates(C5_Names) => rows_df.cols = C5_Names

\* two mapped keys of distinct output names, one named by its header label
\* and one by its key
C5_Witness ==
    /\ IsTable(rows_df)
    /\ Len(C5_Names) = 2
    /\ ~HasDuplicates(C5_Names)
    /\ \E k \in 1..2 : C5_Names[k] = json_mapper.entries[k].key
    /\ \E k \in 1..2 : C5_Names[k] # json_mapper.entries[k].key
    /\ Len(metadata_df.rows) = 2

-----------------------------------------------------------------------------
(* C6.                                                                     *)

\* C6: once the loop has gone over an annotation group (joined or found
\* empty), every row of the working table holds in sample_isolated_from the
\* key of the last group gone over; after the loop that is the last
\* annotation key of the record.
C6_LastGroupStamped ==
    (Retrieved /\ Processed >= 1) =>
        /\ HasCol(df, SampleIsolatedFrom)
        /\ \A i \in 1..Len(df.rows) : GetCol(df, SampleIsolatedFrom)[i] = AnnotationKeys[Processed]

\* two annotation groups, the first joined and the last an empty list, and
\* the table returned with the last key in every row
C6_Witness ==
    /\ Retrieved
    /\ pc = "load_mapper"
    /\ Len(AnnotationKeys) = 2
    /\ ~IsEmpty(ProcessedTable(1))
    /\ IsEmpty(ProcessedTable(2))
    /\ Len(df.rows) = 2
    /\ \A i \in 1..2 : GetCol(df, SampleIsolatedFrom)[i] = AnnotationKeys[2]

-----------------------------------------------------------------------------
(* C7.                                                                     *)

NamesOf(t) == GetCol(t, SampName)

\* the annotation groups joined so far (those whose table is not empty)
Joined == {i \in 1..Processed : ~IsEmpty(ProcessedTable(i))}

\* no samp_name occurs twice within one joined group
GroupNamesUnique == \A i \in Joined : ~HasDuplicates(NamesOf(ProcessedTable(i)))

\* C7 as stated: after any sequence of joins the working table has exactly
\* the base table's rows by samp_name, and (the base table's names being
\* distinct) each name in one row only.
C7_BaseRowsOnly ==
    (Retrieved /\ HasCol(df, SampName)) =>
        /\ NamesOf(df) = NamesOf(BaseTable)
        /\ ~HasDuplicates(NamesOf(BaseTable)) => ~HasDuplicates(NamesOf(df))

\* C7 amended: when no joined annotation group holds a samp_name twice, the
\* working table has after any sequence of joins exactly the base table's rows
\* by samp_name (each name in one row when the base table's names are
\* distinct): the base cells are kept, annotation records of other names are
\* dropped, and a row whose name no joined group holds has missing values in
\* every joined column.  A group holding a name twice doubles the row of that
\* name.
C7_UniqueNamesKeepBaseRows ==
    (Retrieved /\ HasCol(df, SampName) /\ GroupNamesUnique) =>
        /\ NamesOf(df) = NamesOf(BaseTable)
        /\ ~HasDuplicates(NamesOf(BaseTable)) => ~HasDuplicates(NamesOf(df))
        /\ pc = "merge" =>
              \A i \in 1..Len(df.rows) :
                  /\ \A j \in 1..Len(BaseTable.cols) :
                        BaseTable.cols[j] # SampleIsolatedFrom => df.rows[i][j] = BaseTable.rows[i][j]
                  /\ (\A g \in Joined : NamesOf(df)[i] \notin Range(NamesOf(ProcessedTable(g)))) =>
                        \A j \in (Len(BaseTable.cols) + 1)..Len(df.cols) :
                            df.cols[j] # SampleIsolatedFrom => df.rows[i][j] = NaN

\* a base table of two names, one joined group holding the first and another
\* holding only a name the base table lacks
C7_Witness ==
    /\ Retrieved
    /\ pc = "merge"
    /\ keys_left = <<>>
    /\ GroupNamesUnique
    /\ ~HasDuplicates(NamesOf(BaseTable))
    /\ Len(df.rows) = 2
    /\ Cardinality(Joined) = 2
    /\ \E g \in Joined : NamesOf(df)[1] \in Range(NamesOf(ProcessedTable(g)))
    /\ \E g \in Joined : Range(NamesOf(ProcessedTable(g))) \cap Range(NamesOf(df)) = {}
    /\ \A g \in Joined : NamesOf(df)[2] \notin Range(NamesOf(ProcessedTable(g)))

-----------------------------------------------------------------------------
(* C8.                                                                     *)

NonKeyCols(t) == Range(t.cols) \ {SampName}

\* the union of the columns of the base table and of the joined groups, with
\* the stamp column once a group has been gone over
UnionOfColumns ==
    Range(BaseTable.cols)
    \cup UNION {Range(ProcessedTable(i).cols) : i \in Joined}
    \cup (IF Processed >= 1 THEN {SampleIsolatedFrom} ELSE {})

\* C8 as stated: the working table's columns are the union of the columns of
\* the base table and of every joined group (so that joining records of the
\* same columns again changes no column).
C8_ColumnsAreUnion ==
    (Retrieved /\ pc = "merge") => Range(df.cols) = UnionOfColumns

\* no column but samp_name is shared between the base table and a joined
\* group or between two joined groups, and none is the stamp column
DisjointColumns ==
    /\ \A i \in Joined :
          NonKeyCols(ProcessedTable(i)) \cap (NonKeyCols(BaseTable) \cup {SampleIsolatedFrom}) = {}
    /\ \A i, k \in Joined : i # k => NonKeyCols(ProcessedTable(i)) \cap NonKeyCols(ProcessedTable(k)) = {}

\* C8 amended: when the base table and the joined groups share no column but
\* samp_name, the working table's columns are the union of their columns and
\* sample_isolated_from.  A column name the joined group shares with the table
\* is not merged: after the first join the table holds it twice, suffixed _x
\* and _y, so joining records of the same columns again adds columns.
C8_DisjointColumnsAreUnion ==
    (Retrieved /\ pc = "merge") =>
        /\ DisjointColumns => Range(df.cols) = UnionOfColumns
        /\ (Processed = 1 /\ Joined = {1}) =>
              \A c \in (NonKeyCols(BaseTable) \cap NonKeyCols(ProcessedTable(1))) \ {SampleIsolatedFrom} :
                  /\ c \notin Range(df.cols)
                  /\ c \o SuffixX \in Range(df.cols)
                  /\ c \o SuffixY \in Range(df.cols)

\* two groups of columns of their own joined onto the base table
C8_Witness ==
    /\ Retrieved
    /\ pc = "merge"
    /\ keys_left = <<>>
    /\ DisjointColumns
    /\ Cardinality(Joined) = 2
    /\ Cardinality(Range(df.cols)) = 5

-----------------------------------------------------------------------------
(* C9.                                                                     *)

\* the hyphen at position i of d stands between two spaces
SpacedHyphen(d, i) == i > 1 /\ i < Len(d) /\ d[i - 1] = Space /\ d[i + 1] = Space

\* d with spaces put around its bare hyphens, the others left as they are
BareHyphensSpaced(d) ==
    LET F[i \in 0..Len(d)] ==
            IF i = 0 THEN <<>>
            ELSE IF d[i] = Hyphen /\ ~SpacedHyphen(d, i) THEN F[i - 1] \o <<Space, Hyphen, Space>>
            ELSE Append(F[i - 1], d[i])
    IN F[Len(d)]

\* the depth derivation has run on a depth column of the base table, whose
\* rows are those of the working table
DepthDerived ==
    /\ Retrieved
    /\ pc \in {"country", "date", "dnase", "load_mapper"}
    /\ HasCol(df, Depth)
    /\ HasCol(BaseTable, Depth)
    /\ Len(df.rows) = Len(BaseTable.rows)

\* C9: the depth values are normalized by putting spaces around their bare
\* hyphens (a hyphen already between spaces is left as it is) and split on
\* " - ": in a table of several rows "0-10" gives the minimum "0" and the
\* maximum "10"; in a table of one row the minimum and the maximum are one
\* value.
C9_DepthNormalizedAndSplit ==
    DepthDerived =>
        \A i \in 1..Len(df.rows) :
            LET d == GetCol(BaseTable, Depth)[i] IN
            /\ GetCol(df, Depth)[i] = BareHyphensSpaced(d)
            /\ (Len(df.rows) > 1 /\ d = <<"0", Hyphen, "10">>) =>
                  GetCol(df, MinimumDepth)[i] = S("0") /\ GetCol(df, MaximumDepth)[i] = S("10")
            /\ Len(df.rows) = 1 => GetCol(df, MinimumDepth)[i] = GetCol(df, MaximumDepth)[i]

-----------------------------------------------------------------------------
(* C10.                                                                    *)

\* every value of column c of the returned table splits on sep into n parts
SplitsInto(c, sep, n) ==
    HasCol(metadata_df, c) =>
        \A i \in 1..Len(metadata_df.rows) :
            LET v == GetCol(metadata_df, c)[i] IN v # NaN /\ Len(StrSplit(v, <<sep>>)) = n

\* C10: a table is only returned when every lat_lon has exactly two
\* space-separated parts and every collection_date exactly three
\* hyphen-separated parts; no returned row has a missing longitude or day.
C10_MalformedFieldsFail ==
    IsTable(metadata_df) =>
        /\ SplitsInto(LatLon, Space, 2)
        /\ SplitsInto(CollectionDate, Hyphen, 3)
        /\ HasCol(metadata_df, Longitude) =>
              \A i \in 1..Len(metadata_df.rows) : GetCol(metadata_df, Longitude)[i] # NaN
        /\ HasCol(metadata_df, CollectionDay) =>
              \A i \in 1..Len(metadata_df.rows) : GetCol(metadata_df, CollectionDay)[i] # NaN

=============================================================================
